---- MODULE Spec2Model ----
(***************************************************************************)
(* A model of the CHIP-8 interpreter of src/src/lib.rs and of its driving  *)
(* loop in src/src/main.rs (default build: the features alt_shift,         *)
(* alt_jump and alt_store_load are off).                                   *)
(*                                                                         *)
(* The interpreter's state (Chip8Context) is carried in a record "ctx"     *)
(* through operators that are translated arm by arm from                   *)
(* decode_instruction; every such operator yields the SET of contexts the  *)
(* code can produce, because Cxnn draws a random byte.  A Rust panic       *)
(* (unwrap on None, index out of bounds, arithmetic overflow in a build    *)
(* with overflow checks) ends the process: the context is returned with    *)
(* its field panic set and nothing runs after it.                          *)
(***************************************************************************)
EXTENDS Integers, Sequences, FiniteSets

VARIABLES
    memory,          \* Chip8Context.memory: [u8; 4096]
    display,         \* Chip8Context.display: [[bool; 64]; 32], display[y][x]
    to_be_rendered,  \* Renderer.to_be_rendered: Vec<Point>, points <<x, y>>
    program_counter, \* Chip8Context.program_counter: usize
    i,               \* Chip8Context.i: u16
    stack,           \* Chip8Context.stack: Vec<usize>
    delay_timer,     \* DTimer.time: u32
    sound_timer,     \* STimer.time: u32
    playing,         \* STimer.playing
    beep_device,     \* STimer.beep_device: "paused" or "playing"
    register,        \* Chip8Context.register: [u8; 16]
    keypad,          \* Chip8Context.keypad: [bool; 16]
    panic,           \* "none", or the reason the process panicked
    overflow_checks, \* build profile: TRUE (debug) panics on integer overflow
    main_pc,         \* position of main: "new" (construction), "input", "update"
    keycodes,        \* the pressed scancodes last handed to process_keyboard_input
    ticks,           \* completed or aborted calls of update()
    delay_started,   \* history: duration of the last start_delay, timer steps since
    sound_started    \* history: duration of the last start_sound, timer steps since

vars == <<memory, display, to_be_rendered, program_counter, i, stack,
          delay_timer, sound_timer, playing, beep_device, register, keypad,
          panic, overflow_checks, main_pc, keycodes, ticks, delay_started,
          sound_started>>

(***************************************************************************)
(* Program constants                                                       *)
(***************************************************************************)
TARGET_IPS == 700
FONT_OFFSET == 80
INSTR_OFFSET == 512
MEMORY_SIZE == 4096
FONT ==
    << 240, 144, 144, 144, 240,   32,  96,  32,  32, 112,
       240,  16, 240, 128, 240,  240,  16, 240,  16, 240,
       144, 144, 240,  16,  16,  240, 128, 240,  16, 240,
       240, 128, 240, 144, 240,  240,  16,  32,  64,  64,
       240, 144, 240, 144, 240,  240, 144, 240,  16, 240,
       240, 144, 240, 144, 144,  224, 144, 224, 144, 224,
       240, 128, 128, 128, 240,  224, 144, 144, 144, 224,
       240, 128, 240, 128, 240,  240, 128, 240, 128, 128 >>

(***************************************************************************)
(* Bounds of the model                                                     *)
(***************************************************************************)
MaxTicks == 6

(***************************************************************************)
(* Machine arithmetic                                                      *)
(***************************************************************************)
Pow2(k) == 2 ^ k
Bit(v, k) == (v \div Pow2(k)) % 2
BitAnd(a, b) ==
    LET RECURSIVE go(_)
        go(k) == IF k < 0 THEN 0
                 ELSE (IF Bit(a, k) = 1 /\ Bit(b, k) = 1 THEN Pow2(k) ELSE 0) + go(k - 1)
    IN go(15)
BitOr(a, b) ==
    LET RECURSIVE go(_)
        go(k) == IF k < 0 THEN 0
                 ELSE (IF Bit(a, k) = 1 \/ Bit(b, k) = 1 THEN Pow2(k) ELSE 0) + go(k - 1)
    IN go(15)
BitXor(a, b) ==
    LET RECURSIVE go(_)
        go(k) == IF k < 0 THEN 0
                 ELSE (IF Bit(a, k) # Bit(b, k) THEN Pow2(k) ELSE 0) + go(k - 1)
    IN go(15)
\* "as u8": truncation to the low 8 bits
AsU8(v) == v % 256
\* the i-th nibble of a 16-bit word, 0 the highest
bit_i(byte, k) == (byte \div Pow2(12 - k * 4)) % 16

Panic(c, reason) == [c EXCEPT !.panic = reason]

(***************************************************************************)
(* Memory construction                                                     *)
(***************************************************************************)
\* the font is copied first, then the program into the slice
\* memory[INSTR_OFFSET .. len + INSTR_OFFSET]; a program that does not fit
\* makes the slice's end exceed the memory and the copy panics.  The result
\* is the memory and the panic, "none" when the array is returned
init_memory(program_bytes) ==
    IF Len(program_bytes) + INSTR_OFFSET > MEMORY_SIZE
        THEN [memory |-> [a \in 0..(MEMORY_SIZE - 1) |->
                            IF a >= FONT_OFFSET /\ a < FONT_OFFSET + Len(FONT)
                                THEN FONT[a - FONT_OFFSET + 1]
                            ELSE 0],
              panic |-> "index_out_of_bounds"]
        ELSE [memory |-> [a \in 0..(MEMORY_SIZE - 1) |->
                            IF a >= INSTR_OFFSET /\ a < INSTR_OFFSET + Len(program_bytes)
                                THEN program_bytes[a - INSTR_OFFSET + 1]
                            ELSE IF a >= FONT_OFFSET /\ a < FONT_OFFSET + Len(FONT)
                                THEN FONT[a - FONT_OFFSET + 1]
                            ELSE 0],
              panic |-> "none"]

(***************************************************************************)
(* Display and renderer                                                    *)
(***************************************************************************)
BlankDisplay == [y \in 0..31 |-> [x \in 0..63 |-> FALSE]]

\* clear_screen(true); the canvas itself is not part of the model
clear_screen(c) ==
    [c EXCEPT !.display = BlankDisplay, !.to_be_rendered = <<>>]

read_pixel_at(c, x, y) == c.display[y][x]

\* mutant of draw_pixel_at: the point is not handed to the renderer
draw_pixel_at_display_only(c, x, y) ==
    [c EXCEPT !.display[y][x] = TRUE]

draw_pixel_at(c, x, y) ==
    [c EXCEPT !.to_be_rendered = Append(@, <<x, y>>),
              !.display[y][x] = TRUE]

RemoveAt(s, k) == [j \in 1..(Len(s) - 1) |-> IF j < k THEN s[j] ELSE s[j + 1]]

\* mutant of remove_pixel_at: the point is removed, the display entry is not cleared
remove_pixel_at_list_only(c, x, y) ==
    LET hits == {k \in 1..Len(c.to_be_rendered) : c.to_be_rendered[k] = <<x, y>>}
    IN  IF hits = {} THEN c
        ELSE LET first == CHOOSE k \in hits : \A m \in hits : k <= m
             IN  [c EXCEPT !.to_be_rendered = RemoveAt(@, first)]

remove_pixel_at(c, x, y) ==
    LET hits == {k \in 1..Len(c.to_be_rendered) : c.to_be_rendered[k] = <<x, y>>}
    IN  IF hits = {} THEN c
        ELSE LET first == CHOOSE k \in hits : \A m \in hits : k <= m
             IN  [c EXCEPT !.to_be_rendered = RemoveAt(@, first),
                           !.display[y][x] = FALSE]

get_mem_region(c, start, end) == [k \in 1..(end - start) |-> c.memory[start + k - 1]]

(***************************************************************************)
(* Timers                                                                  *)
(***************************************************************************)
\* mutant of start_delay: the duration is not scaled to ticks
start_delay_unscaled(c, duration) ==
    [c EXCEPT !.delay_timer = duration,
              !.delay_started = [duration |-> duration, steps |-> 0]]

start_delay(c, duration) ==
    [c EXCEPT !.delay_timer = duration * (TARGET_IPS \div 60),
              !.delay_started = [duration |-> duration, steps |-> 0]]

start_sound(c, duration) ==
    [c EXCEPT !.sound_timer = duration * (TARGET_IPS \div 60),
              !.sound_started = [duration |-> duration, steps |-> 0]]

\* mutant of DTimer_update: the decrement is not guarded by time > 0
DTimer_update_unguarded(c) ==
    [c EXCEPT !.delay_timer = @ - 1,
              !.delay_started.steps = @ + 1]

DTimer_update(c) ==
    [c EXCEPT !.delay_timer = IF @ > 0 THEN @ - 1 ELSE @,
              !.delay_started.steps = @ + 1]

\* mutant of STimer_update: the device is not paused when the counter is 0
STimer_update_never_pauses(c) ==
    IF c.sound_timer > 0
        THEN [c EXCEPT !.playing = TRUE,
                       !.beep_device = IF c.playing THEN @ ELSE "playing",
                       !.sound_timer = @ - 1,
                       !.sound_started.steps = @ + 1]
        ELSE [c EXCEPT !.playing = FALSE,
                       !.sound_started.steps = @ + 1]

STimer_update(c) ==
    IF c.sound_timer > 0
        THEN [c EXCEPT !.playing = TRUE,
                       !.beep_device = IF c.playing THEN @ ELSE "playing",
                       !.sound_timer = @ - 1,
                       !.sound_started.steps = @ + 1]
        ELSE [c EXCEPT !.playing = FALSE, !.beep_device = "paused",
                       !.sound_started.steps = @ + 1]

(***************************************************************************)
(* decode_instruction, one operator per arm.  c is the context after the   *)
(* program counter was advanced past the instruction.                      *)
(***************************************************************************)
\* 00E0
op_clear_screen(c) == {clear_screen(c)}

\* mutant of op_return: an empty stack leaves the program counter as it is
op_return_unchecked(c) ==
    IF c.stack = <<>>
        THEN {c}
        ELSE {[c EXCEPT !.program_counter = c.stack[Len(c.stack)],
                        !.stack = SubSeq(@, 1, Len(@) - 1)]}

\* 00EE: self.stack.pop().unwrap()
op_return(c) ==
    IF c.stack = <<>>
        THEN {Panic(c, "unwrap_on_none")}
        ELSE {[c EXCEPT !.program_counter = c.stack[Len(c.stack)],
                        !.stack = SubSeq(@, 1, Len(@) - 1)]}

\* 1nnn
op_jump(c, nnn) == {[c EXCEPT !.program_counter = nnn]}

\* mutant of op_subroutine: the address of the call itself is pushed
op_subroutine_pushes_call_address(c, nnn) ==
    {[c EXCEPT !.stack = Append(@, c.program_counter - 2),
               !.program_counter = nnn]}

\* 2nnn
op_subroutine(c, nnn) ==
    {[c EXCEPT !.stack = Append(@, c.program_counter),
               !.program_counter = nnn]}

\* 3xnn
op_skip_eq_nn(c, vx, nn) ==
    {IF c.register[vx] = nn THEN [c EXCEPT !.program_counter = @ + 2] ELSE c}

\* 4xnn
op_skip_ne_nn(c, vx, nn) ==
    {IF c.register[vx] # nn THEN [c EXCEPT !.program_counter = @ + 2] ELSE c}

\* 5xy_ : the arm is selected by the top nibble alone
op_skip_eq_reg(c, vx, vy) ==
    {IF c.register[vx] = c.register[vy]
        THEN [c EXCEPT !.program_counter = @ + 2] ELSE c}

\* 9xy_ : the arm is selected by the top nibble alone
op_skip_ne_reg(c, vx, vy) ==
    {IF c.register[vx] # c.register[vy]
        THEN [c EXCEPT !.program_counter = @ + 2] ELSE c}

\* 6xnn
op_set_register(c, vx, nn) == {[c EXCEPT !.register[vx] = nn]}

\* 7xnn
op_add_to_register(c, vx, nn) ==
    {[c EXCEPT !.register[vx] = (@ + nn) % (255 + 1)]}

\* 8xy0
op_alu_set(c, vx, vy) == {[c EXCEPT !.register[vx] = c.register[vy]]}
\* 8xy1
op_alu_or(c, vx, vy) == {[c EXCEPT !.register[vx] = BitOr(@, c.register[vy])]}
\* 8xy2
op_alu_and(c, vx, vy) == {[c EXCEPT !.register[vx] = BitAnd(@, c.register[vy])]}
\* 8xy3
op_alu_xor(c, vx, vy) == {[c EXCEPT !.register[vx] = BitXor(@, c.register[vy])]}

\* 8xy4: VF is written first, the sum is then read from the registers
op_alu_add(c, vx, vy) ==
    LET r0 == c.register
        carry == r0[vx] + r0[vy] > 255
        r1 == [r0 EXCEPT ![15] = IF carry THEN 1 ELSE 0]
        r2 == [r1 EXCEPT ![vx] = (r1[vx] + r1[vy]) % (255 + 1)]
    IN  {[c EXCEPT !.register = r2]}

\* a u8 subtraction a - b stored into register[vx] of registers r, the
\* registers after the write of VF; a panic leaves them as r
SubU8(c, r, vx, a, b) ==
    IF a >= b THEN [c EXCEPT !.register = [r EXCEPT ![vx] = a - b]]
    ELSE IF c.overflow_checks
        THEN Panic([c EXCEPT !.register = r], "arithmetic_overflow")
    ELSE [c EXCEPT !.register = [r EXCEPT ![vx] = a - b + 256]]

\* 8xy5: VF is written first, then register[vx] -= register[vy]
op_alu_sub_xy(c, vx, vy) ==
    LET r0 == c.register
        r1 == [r0 EXCEPT ![15] = IF r0[vx] > r0[vy] THEN 1 ELSE 0]
    IN  {SubU8(c, r1, vx, r1[vx], r1[vy])}

\* 8xy7: VF is written first, then register[vx] = register[vy] - register[vx]
op_alu_sub_yx(c, vx, vy) ==
    LET r0 == c.register
        r1 == [r0 EXCEPT ![15] = IF r0[vy] > r0[vx] THEN 1 ELSE 0]
    IN  {SubU8(c, r1, vx, r1[vy], r1[vx])}

\* 8xy6
op_alu_shift_right(c, vx) ==
    LET entry == c.register[vx]
        r1 == [c.register EXCEPT ![vx] = entry \div 2]
    IN  {[c EXCEPT !.register = [r1 EXCEPT ![15] = entry % 2]]}

\* 8xyE
op_alu_shift_left(c, vx) ==
    LET entry == c.register[vx]
        r1 == [c.register EXCEPT ![vx] = (entry * 2) % 256]
    IN  {[c EXCEPT !.register = [r1 EXCEPT ![15] = entry \div 128]]}

\* Annn
op_set_index(c, nnn) == {[c EXCEPT !.i = nnn]}

\* Bnnn, feature alt_jump off: the offset is V0
op_jump_offset(c, nnn) ==
    {[c EXCEPT !.program_counter = nnn + c.register[0]]}

\* Cxnn: gen_range(0x0..0xFF) excludes its upper end
op_random(c, vx, nn) ==
    {[c EXCEPT !.register[vx] = BitAnd(random_number, nn)] : random_number \in 0..254}

\* mutant of draw_bits: a column past the right edge wraps to the left edge
RECURSIVE draw_bits_wrapping(_, _, _, _, _, _)
draw_bits_wrapping(c, byte, x, curr_x, curr_y, bit) ==
    IF bit >= 8 THEN c
    ELSE LET new_pixel == (byte \div Pow2(8 - bit - 1)) % 2
             old_pixel == read_pixel_at(c, curr_x % 64, curr_y)
             c1 == IF new_pixel = 1 /\ ~old_pixel
                       THEN draw_pixel_at(c, curr_x % 64, curr_y)
                   ELSE IF new_pixel = 1 /\ old_pixel
                       THEN remove_pixel_at([c EXCEPT !.register[15] = 1], curr_x % 64, curr_y)
                   ELSE c
         IN  draw_bits_wrapping(c1, byte, x, curr_x + 1, curr_y, bit + 1)

\* Dxyn, the inner loop: bits bit..7 of one sprite row
RECURSIVE draw_bits(_, _, _, _, _, _)
draw_bits(c, byte, x, curr_x, curr_y, bit) ==
    IF bit >= 8 \/ x + bit >= 64 THEN c
    ELSE LET new_pixel == (byte \div Pow2(8 - bit - 1)) % 2
             old_pixel == read_pixel_at(c, curr_x, curr_y)
             c1 == IF new_pixel = 1 /\ ~old_pixel
                       THEN draw_pixel_at(c, curr_x, curr_y)
                   ELSE IF new_pixel = 1 /\ old_pixel
                       THEN remove_pixel_at([c EXCEPT !.register[15] = 1], curr_x, curr_y)
                   ELSE c
         IN  draw_bits(c1, byte, x, curr_x + 1, curr_y, bit + 1)

\* Dxyn, the outer loop over the sprite's bytes
RECURSIVE draw_rows(_, _, _, _)
draw_rows(c, bytes, x, curr_y) ==
    IF bytes = <<>> THEN c
    ELSE IF curr_y >= 32 THEN c
    ELSE draw_rows(draw_bits(c, Head(bytes), x, x, curr_y, 0), Tail(bytes), x, curr_y + 1)

\* Dxyn: x and y are read before VF is cleared; the sprite is the slice
\* memory[i .. i + n], whose bounds are checked before any pixel is drawn
op_draw(c, vx, vy, n) ==
    LET x == c.register[vx] % 64
        y == c.register[vy] % 32
        c1 == [c EXCEPT !.register[15] = 0]
        end == c.i + n
    IN  IF end > 65535 /\ c.overflow_checks THEN {Panic(c1, "arithmetic_overflow")}
        ELSE IF end > MEMORY_SIZE THEN {Panic(c1, "index_out_of_bounds")}
        ELSE {draw_rows(c1, get_mem_region(c1, c.i, end), x, y)}

\* Ex9E
op_skip_if_pressed(c, vx) ==
    IF c.register[vx] >= 16 THEN {Panic(c, "index_out_of_bounds")}
    ELSE {IF c.keypad[c.register[vx]]
             THEN [c EXCEPT !.program_counter = @ + 2] ELSE c}

\* ExA1
op_skip_if_not_pressed(c, vx) ==
    IF c.register[vx] >= 16 THEN {Panic(c, "index_out_of_bounds")}
    ELSE {IF ~c.keypad[c.register[vx]]
             THEN [c EXCEPT !.program_counter = @ + 2] ELSE c}

\* Fx07: self.delay_timer.time as u8
op_read_delay(c, vx) == {[c EXCEPT !.register[vx] = AsU8(c.delay_timer)]}

\* Fx15
op_start_delay(c, vx) == {start_delay(c, c.register[vx])}

\* Fx18
op_start_sound(c, vx) == {start_sound(c, c.register[vx])}

\* Fx1E: a u16 addition; VF is set, never cleared
op_add_to_index(c, vx) ==
    LET sum == c.i + c.register[vx]
    IN  IF sum > 65535 /\ c.overflow_checks THEN {Panic(c, "arithmetic_overflow")}
        ELSE LET c1 == [c EXCEPT !.i = sum % 65536]
             IN  {IF c1.i > 4095 THEN [c1 EXCEPT !.register[15] = 1] ELSE c1}

\* mutant of op_get_key: the last key that is down is taken, not the first
op_get_key_highest(c, vx) ==
    IF \A k \in 0..15 : ~c.keypad[k]
        THEN {[c EXCEPT !.program_counter = @ - 2]}
        ELSE {[c EXCEPT !.register[vx] =
                  CHOOSE k \in 0..15 : c.keypad[k] /\ \A m \in (k + 1)..15 : ~c.keypad[m]]}

\* mutant of op_get_key: the rewind is by one byte instead of one instruction
op_get_key_rewind_one(c, vx) ==
    IF \A k \in 0..15 : ~c.keypad[k]
        THEN {[c EXCEPT !.program_counter = @ - 1]}
        ELSE {[c EXCEPT !.register[vx] =
                  CHOOSE k \in 0..15 : c.keypad[k] /\ \A m \in 0..(k - 1) : ~c.keypad[m]]}

\* Fx0A
op_get_key(c, vx) ==
    IF \A k \in 0..15 : ~c.keypad[k]
        THEN {[c EXCEPT !.program_counter = @ - 2]}
        ELSE {[c EXCEPT !.register[vx] =
                  CHOOSE k \in 0..15 : c.keypad[k] /\ \A m \in 0..(k - 1) : ~c.keypad[m]]}

\* Fx29
op_font_char(c, vx) == {[c EXCEPT !.i = FONT_OFFSET + 5 * c.register[vx]]}

\* mutant of op_bcd: the digits are stored ones first
op_bcd_ones_first(c, vx) ==
    LET val == c.register[vx]
        d1 == ((val \div 10) \div 10) % 10
        d2 == (val \div 10) % 10
        d3 == val % 10
    IN  IF c.i + 2 > MEMORY_SIZE - 1 THEN {Panic(c, "index_out_of_bounds")}
        ELSE {[c EXCEPT !.memory[c.i] = d3,
                        !.memory[c.i + 1] = d2,
                        !.memory[c.i + 2] = d1]}

\* Fx33: three indexed stores at i, i + 1, i + 2 (usize arithmetic), one
\* after the other; the first of them that is out of bounds panics, the
\* stores before it are made
op_bcd(c, vx) ==
    LET val == c.register[vx]
        d1 == ((val \div 10) \div 10) % 10
        d2 == (val \div 10) % 10
        d3 == val % 10
    IN  IF c.i > MEMORY_SIZE - 1 THEN {Panic(c, "index_out_of_bounds")}
        ELSE IF c.i + 1 > MEMORY_SIZE - 1
            THEN {Panic([c EXCEPT !.memory[c.i] = d1], "index_out_of_bounds")}
        ELSE IF c.i + 2 > MEMORY_SIZE - 1
            THEN {Panic([c EXCEPT !.memory[c.i] = d1,
                                  !.memory[c.i + 1] = d2], "index_out_of_bounds")}
        ELSE {[c EXCEPT !.memory[c.i] = d1,
                        !.memory[c.i + 1] = d2,
                        !.memory[c.i + 2] = d3]}

\* the address (self.i + i as u16) as usize of Fx55 and Fx65: -1 stands for
\* the overflow panic of a build with overflow checks
IndexAddr(c, k) ==
    IF c.i + k > 65535
        THEN (IF c.overflow_checks THEN -1 ELSE (c.i + k) % 65536)
        ELSE c.i + k

\* Fx55, feature alt_store_load off: for i in 0..=vx
RECURSIVE store_registers(_, _, _)
store_registers(c, k, vx) ==
    IF k > vx THEN c
    ELSE LET addr == IndexAddr(c, k)
         IN  IF addr = -1 THEN Panic(c, "arithmetic_overflow")
             ELSE IF addr > MEMORY_SIZE - 1 THEN Panic(c, "index_out_of_bounds")
             ELSE store_registers([c EXCEPT !.memory[addr] = c.register[k]], k + 1, vx)

op_store_registers(c, vx) == {store_registers(c, 0, vx)}

\* Fx65, feature alt_store_load off: for i in 0..=vx
RECURSIVE load_registers(_, _, _)
load_registers(c, k, vx) ==
    IF k > vx THEN c
    ELSE LET addr == IndexAddr(c, k)
         IN  IF addr = -1 THEN Panic(c, "arithmetic_overflow")
             ELSE IF addr > MEMORY_SIZE - 1 THEN Panic(c, "index_out_of_bounds")
             ELSE load_registers([c EXCEPT !.register[k] = c.memory[addr]], k + 1, vx)

\* mutant of op_load_registers: the loop excludes register vx
op_load_registers_exclusive(c, vx) == {load_registers(c, 0, vx - 1)}

op_load_registers(c, vx) == {load_registers(c, 0, vx)}

\* the arms that do nothing: _ => ()
op_ignored(c) == {c}

decode_instruction(c, opcode) ==
    LET vx == bit_i(opcode, 1)
        vy == bit_i(opcode, 2)
        nnn == opcode % 4096
        nn == opcode % 256
        n == opcode % 16
        top == bit_i(opcode, 0)
    IN  CASE top = 0 ->
                (CASE nnn = 224 -> op_clear_screen(c)
                   [] nnn = 238 -> op_return(c)
                   [] OTHER -> op_ignored(c))
          [] top = 1 -> op_jump(c, nnn)
          [] top = 2 -> op_subroutine(c, nnn)
          [] top = 3 -> op_skip_eq_nn(c, vx, nn)
          [] top = 4 -> op_skip_ne_nn(c, vx, nn)
          [] top = 5 -> op_skip_eq_reg(c, vx, vy)
          [] top = 6 -> op_set_register(c, vx, nn)
          [] top = 7 -> op_add_to_register(c, vx, nn)
          [] top = 8 ->
                (CASE n = 0 -> op_alu_set(c, vx, vy)
                   [] n = 1 -> op_alu_or(c, vx, vy)
                   [] n = 2 -> op_alu_and(c, vx, vy)
                   [] n = 3 -> op_alu_xor(c, vx, vy)
                   [] n = 4 -> op_alu_add(c, vx, vy)
                   [] n = 5 -> op_alu_sub_xy(c, vx, vy)
                   [] n = 7 -> op_alu_sub_yx(c, vx, vy)
                   [] n = 6 -> op_alu_shift_right(c, vx)
                   [] n = 14 -> op_alu_shift_left(c, vx)
                   [] OTHER -> op_ignored(c))
          [] top = 9 -> op_skip_ne_reg(c, vx, vy)
          [] top = 10 -> op_set_index(c, nnn)
          [] top = 11 -> op_jump_offset(c, nnn)
          [] top = 12 -> op_random(c, vx, nn)
          [] top = 13 -> op_draw(c, vx, vy, n)
          [] top = 14 ->
                (CASE nn = 158 -> op_skip_if_pressed(c, vx)
                   [] nn = 161 -> op_skip_if_not_pressed(c, vx)
                   [] OTHER -> op_ignored(c))
          [] top = 15 ->
                (CASE nn = 7 -> op_read_delay(c, vx)
                   [] nn = 21 -> op_start_delay(c, vx)
                   [] nn = 24 -> op_start_sound(c, vx)
                   [] nn = 30 -> op_add_to_index(c, vx)
                   [] nn = 10 -> op_get_key(c, vx)
                   [] nn = 41 -> op_font_char(c, vx)
                   [] nn = 51 -> op_bcd(c, vx)
                   [] nn = 85 -> op_store_registers(c, vx)
                   [] nn = 101 -> op_load_registers(c, vx)
                   [] OTHER -> op_ignored(c))

(***************************************************************************)
(* The tick                                                                *)
(***************************************************************************)
\* whether the two-byte fetch at address pc stays inside the memory
FetchInBounds(pc) == pc + 1 <= MEMORY_SIZE - 1

\* the big-endian 16-bit word at addresses pc, pc + 1
fetch(mem, pc) == mem[pc] * 256 + mem[pc + 1]

\* the wrap at the end of process_instructions
wrap_program_counter(c) ==
    IF c.program_counter >= MEMORY_SIZE
        THEN [c EXCEPT !.program_counter = INSTR_OFFSET] ELSE c

process_instructions(c) ==
    IF ~FetchInBounds(c.program_counter) THEN {Panic(c, "index_out_of_bounds")}
    ELSE LET instr == fetch(c.memory, c.program_counter)
             c1 == [c EXCEPT !.program_counter = @ + 2]
         IN  {IF d.panic # "none" THEN d ELSE wrap_program_counter(d) :
                 d \in decode_instruction(c1, instr)}

\* mutant of finish_update: the keypad is not reset
finish_update_keeps_keypad(c) == STimer_update(DTimer_update(c))

\* the statements of update() after process_instructions
finish_update(c) ==
    [STimer_update(DTimer_update(c)) EXCEPT !.keypad = [k \in 0..15 |-> FALSE]]

update(c) ==
    {IF p.panic # "none" THEN p ELSE finish_update(p) : p \in process_instructions(c)}

(***************************************************************************)
(* Keyboard                                                                *)
(***************************************************************************)
\* the keypad entry a scancode sets, -1 for the arm _ => ()
ScancodeKey(sc) ==
    CASE sc = "Num1" -> 0   [] sc = "Num2" -> 1   [] sc = "Num3" -> 2
      [] sc = "Num4" -> 12  [] sc = "Q" -> 4      [] sc = "W" -> 5
      [] sc = "E" -> 6      [] sc = "R" -> 13     [] sc = "A" -> 7
      [] sc = "S" -> 8      [] sc = "D" -> 9      [] sc = "F" -> 14
      [] sc = "Y" -> 10     [] sc = "Z" -> 10     [] sc = "X" -> 0
      [] sc = "C" -> 11     [] sc = "V" -> 15     [] OTHER -> -1

process_keyboard_input(c, pressed) ==
    [c EXCEPT !.keypad =
        [k \in 0..15 |-> c.keypad[k] \/ \E sc \in pressed : ScancodeKey(sc) = k]]

(***************************************************************************)
(* Programs: the game files the model is run on                           *)
(***************************************************************************)
\* the bytes of a sequence of 16-bit instructions, big-endian
Bytes(ops) ==
    [k \in 1..(2 * Len(ops)) |->
        IF k % 2 = 1 THEN ops[(k + 1) \div 2] \div 256 ELSE ops[k \div 2] % 256]

\* a game file that fills the memory to its end: head at 0x200, zeros, and
\* tail as the last instructions (the last one at 0xFFE)
FullLength(head, tail) ==
    LET size == MEMORY_SIZE - INSTR_OFFSET
        h == Bytes(head)
        t == Bytes(tail)
    IN  [k \in 1..size |->
            IF k <= Len(h) THEN h[k]
            ELSE IF k > size - Len(t) THEN t[k - (size - Len(t))]
            ELSE 0]

\* one instruction of every arm of decode_instruction, and unassigned opcodes
OpcodeSample ==
    { \h0000, \h00E0, \h00EE, \h0123,
      \h1200, \h1203, \h1FFE, \h1FFF,
      \h2204, \h2FFE,
      \h3000, \h3001, \h4000, \h4001,
      \h5010, \h5011, \h9010, \h9011,
      \h6001, \h60FF, \h6118, \h7001, \h70FF,
      \h8010, \h8011, \h8012, \h8013, \h8014, \h8015, \h8017, \h8016, \h801E, \h8018,
      \hA050, \hAFFF, \hB200, \hBFFF, \hC003,
      \hD005, \hE09E, \hE0A1, \hE000,
      \hF007, \hF015, \hF018, \hF01E, \hF00A, \hF029, \hF033, \hF055, \hF065, \hF0FF }

\* first instructions that set up what the second one reads
FirstSample == { \h0000, \h6001, \h60FF, \h6118, \hAFFF, \h2204, \h1203, \hF00A }

PairPrograms == {Bytes(<<a, b>>) : a \in FirstSample, b \in OpcodeSample}

\* a jump to 0xFFC and two instructions at the end of the memory
TailSample ==
    { \h0000, \h00EE, \h2FFC, \h3000, \h4000, \h5000, \h9000,
      \h6003, \hE0A1, \hF00A }

TailPrograms == {FullLength(<<\h1FFC>>, <<a, b>>) : a \in TailSample, b \in TailSample}

\* two draws, the second of the same or of another sprite at the same place
DrawPrograms ==
    { Bytes(<<\h6000 + 256 * rx + x, \h6100 + y, \hA000 + a1,
              \hD010 + 256 * rx + n, \hA000 + a2, \hD010 + 256 * rx + n>>) :
        rx \in {0, 15}, x \in {0, 61, 70}, y \in {0, 30, 33},
        a1 \in {\h050, \h000}, a2 \in {\h050, \h055}, n \in {0, 1, 5} }

\* scenarios written out
ScenarioPrograms ==
    { Bytes(<<\h2206, \hF00A, \h1FFF, \h00EE>>),
      Bytes(<<\h6002, \hF015, \hF107, \hF015, \hF018>>),
      Bytes(<<\h6001, \hF018, \hF015, \hF107, \h1206>>),
      Bytes(<<\hA050, \hD015, \hD015, \hD015, \h00E0>>),
      Bytes(<<\hF10A, \hF20A, \hE19E, \hE2A1>>),
      Bytes(<<\h60FF, \hBF01, \h0000>>),
      Bytes(<<\h2202, \h2204, \h2206, \h00EE>>),
      Bytes(<<\h2204, \h1200, \h2208, \h00EE, \h00EE>>),
      FullLength(<<\h1FFE, \h00EE>>, <<\h2202>>),
      [k \in 1..(MEMORY_SIZE - INSTR_OFFSET + 1) |-> 1] }

Programs == PairPrograms \cup TailPrograms \cup DrawPrograms \cup ScenarioPrograms

\* the keyboard states the input collaborator reports
Scancodes ==
    {"Num1", "Num2", "Num3", "Num4", "Q", "W", "E", "R", "A", "S", "D", "F",
     "Y", "Z", "X", "C", "V", "Space"}
KeySample == { {}, {"Num2"}, {"W", "V", "Space"} }

(***************************************************************************)
(* The state machine                                                       *)
(***************************************************************************)
Ctx ==
    [memory |-> memory, display |-> display, to_be_rendered |-> to_be_rendered,
     program_counter |-> program_counter, i |-> i, stack |-> stack,
     delay_timer |-> delay_timer, sound_timer |-> sound_timer,
     playing |-> playing, beep_device |-> beep_device,
     register |-> register, keypad |-> keypad, panic |-> panic,
     overflow_checks |-> overflow_checks, delay_started |-> delay_started,
     sound_started |-> sound_started]

Becomes(c) ==
    /\ memory' = c.memory
    /\ display' = c.display
    /\ to_be_rendered' = c.to_be_rendered
    /\ program_counter' = c.program_counter
    /\ i' = c.i
    /\ stack' = c.stack
    /\ delay_timer' = c.delay_timer
    /\ sound_timer' = c.sound_timer
    /\ playing' = c.playing
    /\ beep_device' = c.beep_device
    /\ register' = c.register
    /\ keypad' = c.keypad
    /\ panic' = c.panic
    /\ overflow_checks' = c.overflow_checks
    /\ delay_started' = c.delay_started
    /\ sound_started' = c.sound_started

\* Chip8Context::new on a game file: at the head of main's loop when it
\* returned, or main ended in the construction when init_memory panicked
Constructed(game_file) ==
    /\ memory = init_memory(game_file).memory
    /\ display = BlankDisplay
    /\ to_be_rendered = <<>>
    /\ program_counter = INSTR_OFFSET
    /\ i = 0
    /\ stack = <<>>
    /\ delay_timer = 0
    /\ sound_timer = 0
    /\ playing = FALSE
    /\ beep_device = "paused"
    /\ register = [k \in 0..15 |-> 0]
    /\ keypad = [k \in 0..15 |-> FALSE]
    /\ panic = init_memory(game_file).panic
    /\ main_pc = IF init_memory(game_file).panic = "none" THEN "input" ELSE "new"
    /\ keycodes = {}
    /\ ticks = 0
    /\ delay_started = [duration |-> 0, steps |-> 0]
    /\ sound_started = [duration |-> 0, steps |-> 0]

Init ==
    /\ overflow_checks \in BOOLEAN
    /\ \E game_file \in Programs : Constructed(game_file)

\* main: chip_8_context.process_keyboard_input(event_pump.keyboard_state())
ProcessKeyboardInput(limit, reported) ==
    /\ main_pc = "input"
    /\ panic = "none"
    /\ ticks < limit
    /\ \E pressed \in reported :
          /\ Becomes(process_keyboard_input(Ctx, pressed))
          /\ keycodes' = pressed
    /\ main_pc' = "update"
    /\ UNCHANGED ticks

\* main: chip_8_context.update()?
Update ==
    /\ main_pc = "update"
    /\ panic = "none"
    /\ \E c \in update(Ctx) :
          /\ Becomes(c)
          /\ main_pc' = IF c.panic = "none" THEN "input" ELSE "update"
    /\ ticks' = ticks + 1
    /\ UNCHANGED keycodes

Next ==
    \/ ProcessKeyboardInput(MaxTicks, KeySample)
    \/ Update

Spec == Init /\ [][Next]_vars

(***************************************************************************)
(* The delay timer run to its end: V0 = d, Fx15, then Fx07 read in a loop  *)
(***************************************************************************)
DelayDurations == {0, 1, 2, 3, 23, 24, 25, 47, 128, 255}

DelayPrograms == {Bytes(<<\h6000 + d, \hF015, \hF107, \h1204>>) : d \in DelayDurations}

\* ticks run after the countdown of the last start_delay has elapsed
DelayMargin == 4
DelayLimit == delay_started.duration * (TARGET_IPS \div 60) + DelayMargin

InitDelay ==
    /\ overflow_checks \in BOOLEAN
    /\ \E game_file \in DelayPrograms : Constructed(game_file)

NextDelay ==
    \/ ProcessKeyboardInput(DelayLimit, {{}})
    \/ Update

SpecDelay == InitDelay /\ [][NextDelay]_vars

(***************************************************************************)
(* The sound timer run to its end: V0 = d, Fx18, then a loop; and a second *)
(* Fx18 after the first sound has stopped                                  *)
(***************************************************************************)
SoundDurations == {0, 1, 2, 3, 24, 255}

SoundPrograms ==
    {Bytes(<<\h6000 + d, \hF018, \h1204>>) : d \in SoundDurations}
    \cup {Bytes(<<\h6001, \hF018>> \o [k \in 1..12 |-> 0] \o <<\hF018, \h121E>>)}

\* ticks run after the countdown of the last start_sound has elapsed
SoundMargin == 4
SoundLimit ==
    ticks - sound_started.steps
        + sound_started.duration * (TARGET_IPS \div 60) + SoundMargin

InitSound ==
    /\ overflow_checks \in BOOLEAN
    /\ \E game_file \in SoundPrograms : Constructed(game_file)

NextSound ==
    \/ ProcessKeyboardInput(SoundLimit, {{}})
    \/ Update

SpecSound == InitSound /\ [][NextSound]_vars

(***************************************************************************)
(* Data instructions run on chosen operands: the registers are set with    *)
(* 6xnn (the index with Annn), then the instruction under study executes.  *)
(* The run ends when the program counter reaches the zeros behind the      *)
(* program text.                                                           *)
(***************************************************************************)
\* <<x, y>>: distinct registers, VF as source, VF as destination, x = y
AluRegisterPairs == { <<0, 1>>, <<0, 15>>, <<15, 0>>, <<3, 3>>, <<15, 15>> }
AluValues == {0, 1, 3, 5, 128, 200, 255}
\* the last nibble of the flag-producing instructions 8xy4, 5, 7, 6, E
AluOps == {4, 5, 7, 6, 14}

AluPrograms ==
    { Bytes(<<\h6000 + 256 * p[1] + a, \h6000 + 256 * p[2] + b,
              \h8000 + 256 * p[1] + 16 * p[2] + op>>) :
        p \in AluRegisterPairs, a \in AluValues, b \in AluValues, op \in AluOps }

\* Vx and I are set, then Fx1E is executed IndexAdds times in a row
IndexAdds == 242
IndexPrograms ==
    { Bytes(<<\h6000 + 256 * x + v, \hA000 + nnn>>
            \o [k \in 1..IndexAdds |-> \hF01E + 256 * x]) :
        x \in {0, 15}, v \in {0, 1, 255}, nnn \in {0, \hFFF} }

\* Vx and I are set, then Fx33 converts Vx
BcdPrograms ==
    { Bytes(<<\h6000 + 256 * x + v, \hA000 + nnn, \hF033 + 256 * x>>) :
        x \in {0, 15}, v \in {0, 7, 10, 42, 99, 100, 199, 200, 255},
        nnn \in {\h300, \hFFD, \hFFE} }

\* V0..V2 are set, Fx55 stores them at I, V0 and V1 are overwritten, Fx65
\* loads them back
StoreLoadPrograms ==
    { Bytes(<<\h6011, \h6100 + b, \h6233, \hA000 + nnn, \hF055 + 256 * x,
              \h60EE, \h61DD, \hF065 + 256 * x>>) :
        b \in {0, \h22}, x \in {0, 1, 15}, nnn \in {\h300, \hFF0, \hFFF} }

\* Cxnn alone
RandomPrograms ==
    { Bytes(<<\hC000 + 256 * x + nn>>) : x \in {0, 15}, nn \in {0, \h0F, \hA5, \hFF} }

\* I is set near the end of the memory by Annn, past it by Fx1E, or to a
\* glyph by Fx29, then one instruction accesses the memory through I
IndexedOps == { \hD001, \hD002, \hD005, \hF033, \hF055, \hF155, \hF065, \hF165 }
IndexedPrograms ==
    { Bytes(<<\hA000 + nnn, op>>) : nnn \in {\hFF0, \hFFE, \hFFF}, op \in IndexedOps }
    \cup { Bytes(<<\h60FF, \hAFFF, \hF01E, op>>) : op \in IndexedOps }
    \cup { Bytes(<<\h60FF, \hF029, op>>) : op \in IndexedOps }

DataPrograms ==
    AluPrograms \cup IndexPrograms \cup BcdPrograms \cup StoreLoadPrograms
        \cup RandomPrograms \cup IndexedPrograms

MaxDataTicks == 250
\* no tick is started once the next instruction is the 0000 behind the program
DataLimit ==
    IF FetchInBounds(program_counter) /\ fetch(memory, program_counter) = 0
        THEN 0 ELSE MaxDataTicks

InitData ==
    /\ overflow_checks \in BOOLEAN
    /\ \E game_file \in DataPrograms : Constructed(game_file)

NextData ==
    \/ ProcessKeyboardInput(DataLimit, {{}})
    \/ Update

SpecData == InitData /\ [][NextData]_vars

(***************************************************************************)
(* Vocabulary of the properties                                            *)
(***************************************************************************)
\* the step is a call of update() that fetches an instruction
TickStep == main_pc = "update" /\ panic = "none" /\ FetchInBounds(program_counter)
\* the instruction that call fetches
Opcode == fetch(memory, program_counter)
IsEven(v) == v % 2 = 0
\* the program counter after the sequential advance and the wrap
Advanced(pc) == IF pc + 2 >= MEMORY_SIZE THEN INSTR_OFFSET ELSE pc + 2
\* one timer step on a counter
Stepped(t) == IF t > 0 THEN t - 1 ELSE 0

(***************************************************************************)
(* C1: at the start of every tick the two-byte fetch reads only addresses  *)
(* 0..4095, that is program_counter + 1 <= 4095 whenever the interpreter   *)
(* is about to fetch.  Violated: 1FFF (or Bnnn with nnn + V0 = 0xFFF)      *)
(* leaves the program counter at 4095, below the wrap's bound, and the     *)
(* next fetch indexes memory[4096].                                        *)
(***************************************************************************)
C1_FetchStaysInMemory == panic = "none" => program_counter + 1 <= 4095

(***************************************************************************)
(* C2 as stated: the program counter is even at the start of every tick.   *)
(* Violated by a jump to an odd address.                                   *)
(***************************************************************************)
C2_PcAlwaysEven == panic = "none" => IsEven(program_counter)

\* a 1nnn or 2nnn with odd nnn, or a Bnnn with nnn + V0 odd
JumpsToOddAddress(opcode, regs) ==
    \/ bit_i(opcode, 0) \in {1, 2} /\ ~IsEven(opcode % 4096)
    \/ bit_i(opcode, 0) = 11 /\ ~IsEven((opcode % 4096) + regs[0])

AlignedControlState(pc, stk) == IsEven(pc) /\ \A k \in 1..Len(stk) : IsEven(stk[k])

(***************************************************************************)
(* C2 as amended: a tick that starts with an even program counter and only *)
(* even return addresses on the stack ends that way (sequential advance,   *)
(* skip, 00EE, Fx0A rewind, wrap to 0x200, jump or call to an even         *)
(* address), unless it executes 1nnn or 2nnn with an odd nnn or Bnnn with  *)
(* nnn + V0 odd.                                                           *)
(***************************************************************************)
C2_EvenUnlessOddJump ==
    [][(/\ TickStep
        /\ AlignedControlState(program_counter, stack)
        /\ ~JumpsToOddAddress(Opcode, register))
       => AlignedControlState(program_counter', stack')]_vars

\* an aligned state after a call and a wrap of the program counter
C2_Witness ==
    /\ panic = "none"
    /\ ticks >= 3
    /\ stack # <<>>
    /\ program_counter = INSTR_OFFSET
    /\ AlignedControlState(program_counter, stack)

(***************************************************************************)
(* C3: in every tick that reaches the timer step, each timer is one less   *)
(* than after the instruction when that was positive and stays 0 when it   *)
(* was 0; only Fx15 changes the delay counter and only Fx18 the sound      *)
(* counter before the step; both counters are >= 0 throughout.             *)
(***************************************************************************)
C3_TimersStepByOne ==
    [][/\ delay_timer' >= 0
       /\ sound_timer' >= 0
       /\ ~TickStep => delay_timer' = delay_timer /\ sound_timer' = sound_timer
       /\ (TickStep /\ panic' = "none") =>
            LET x == bit_i(Opcode, 1)
                started == register[x] * (TARGET_IPS \div 60)
                isF(nn) == bit_i(Opcode, 0) = 15 /\ Opcode % 256 = nn
            IN  /\ delay_timer' = Stepped(IF isF(21) THEN started ELSE delay_timer)
                /\ sound_timer' = Stepped(IF isF(24) THEN started ELSE sound_timer)
      ]_vars

\* both timers running, the sound timer started first and stepped more often
C3_Witness ==
    /\ delay_timer > 0
    /\ sound_timer > 0
    /\ sound_timer < delay_timer
    /\ delay_started.steps >= 2

(***************************************************************************)
(* C4: after start_delay with duration d and d * (TARGET_IPS / 60) timer   *)
(* steps with no further start, Fx07 reads 0; for d >= 1, after one step   *)
(* fewer Fx07 reads a positive value.                                      *)
(***************************************************************************)
C4_DelayElapses ==
    LET d == delay_started.duration
        s == delay_started.steps
        read == {c.register[1] : c \in op_read_delay(Ctx, 1)}
    IN  /\ s = d * (TARGET_IPS \div 60) => read = {0}
        /\ (d >= 1 /\ s = d * (TARGET_IPS \div 60) - 1) => \A v \in read : v > 0

\* a countdown started with 2 has just elapsed, and the last Fx07 before read
\* a positive value
C4_Witness ==
    /\ delay_started.duration = 2
    /\ delay_started.steps = 2 * (TARGET_IPS \div 60)
    /\ delay_timer = 0
    /\ register[1] > 0

IsGetKey(opcode) == bit_i(opcode, 0) = 15 /\ opcode % 256 = 10
NoKeyDown(kp) == \A k \in 0..15 : ~kp[k]
LowestKeyDown(kp) == CHOOSE k \in 0..15 : kp[k] /\ \A m \in 0..15 : kp[m] => k <= m

(***************************************************************************)
(* C5 as stated: a tick that executes Fx0A with no key down ends with the  *)
(* program counter, Vx (all registers) and the memory as before the tick,  *)
(* so the same Fx0A is decoded again; with a key down it sets Vx to the    *)
(* lowest index that is down and ends with the program counter advanced    *)
(* by 2.  Violated by an Fx0A at 0xFFE, whose advance is wrapped.          *)
(***************************************************************************)
C5_GetKeyAdvancesByTwo ==
    [][(TickStep /\ IsGetKey(Opcode)) =>
          IF NoKeyDown(keypad)
              THEN /\ program_counter' = program_counter
                   /\ register' = register
                   /\ memory' = memory
                   /\ panic' = "none"
              ELSE /\ register' = [register EXCEPT ![bit_i(Opcode, 1)] = LowestKeyDown(keypad)]
                   /\ program_counter' = program_counter + 2
                   /\ panic' = "none"
      ]_vars

(***************************************************************************)
(* C5 as amended: the same, but with a key down the tick ends with the     *)
(* program counter advanced by 2, or reset to 0x200 when that advance      *)
(* reaches 4096 (an Fx0A at 0xFFE).                                        *)
(***************************************************************************)
C5_GetKeyBlocksUntilKey ==
    [][(TickStep /\ IsGetKey(Opcode)) =>
          IF NoKeyDown(keypad)
              THEN /\ program_counter' = program_counter
                   /\ register' = register
                   /\ memory' = memory
                   /\ panic' = "none"
              ELSE /\ register' = [register EXCEPT ![bit_i(Opcode, 1)] = LowestKeyDown(keypad)]
                   /\ program_counter' = Advanced(program_counter)
                   /\ panic' = "none"
      ]_vars

\* F10A waited at 0x200 for at least one tick, then took key 5 of the keys 5 and 15
C5_Witness ==
    /\ fetch(memory, INSTR_OFFSET) = \hF10A
    /\ program_counter = INSTR_OFFSET + 2
    /\ ticks >= 2
    /\ register[1] = 5

(***************************************************************************)
(* C6: 00EE on an empty stack ends the run in a fault (the panic of        *)
(* unwrap on None) instead of continuing with some program counter; no    *)
(* step is taken after a fault; no other instruction raises this fault,    *)
(* and 2nnn never faults.                                                  *)
(***************************************************************************)
C6_ReturnOnEmptyStackFaults ==
    [][/\ panic = "none"
       /\ TickStep =>
            /\ (Opcode = \h00EE /\ stack = <<>>) => panic' = "unwrap_on_none"
            /\ panic' = "unwrap_on_none" => (Opcode = \h00EE /\ stack = <<>>)
            /\ bit_i(Opcode, 0) = 2 => panic' = "none"
      ]_vars

\* the fault has happened after at least one call and return
C6_Witness == panic = "unwrap_on_none" /\ ticks >= 3

\* the opcodes that reach an arm _ => () of decode_instruction
IsIgnored(opcode) ==
    LET top == bit_i(opcode, 0)
        nnn == opcode % 4096
        nn == opcode % 256
        n == opcode % 16
    IN  \/ top = 0 /\ nnn \notin {\h0E0, \h0EE}
        \/ top = 8 /\ n \in {8, 9, 10, 11, 12, 13, 15}
        \/ top = 14 /\ nn \notin {\h9E, \hA1}
        \/ top = 15 /\ nn \notin {\h07, \h0A, \h15, \h18, \h1E, \h29, \h33, \h55, \h65}

(***************************************************************************)
(* C7: a tick that executes an opcode outside the opcode table (one that   *)
(* decode_instruction ignores, or 5xyN or 9xyN with N # 0, which the table *)
(* does not assign either) is a no-op: it ends with the program counter    *)
(* advanced by 2 (wrapped at the memory bound), with registers, I, memory, *)
(* stack and display unchanged, the timers only stepped, and without a     *)
(* fault.  Violated by 5xyN and 9xyN with N # 0, which are decoded by the  *)
(* arms of 5xy0 and 9xy0 and skip like them.                               *)
(***************************************************************************)
C7_UnassignedIsNoOp ==
    [][(/\ TickStep
        /\ \/ IsIgnored(Opcode)
           \/ bit_i(Opcode, 0) \in {5, 9} /\ Opcode % 16 # 0) =>
          /\ program_counter' = Advanced(program_counter)
          /\ register' = register
          /\ i' = i
          /\ memory' = memory
          /\ stack' = stack
          /\ display' = display
          /\ delay_timer' = Stepped(delay_timer)
          /\ sound_timer' = Stepped(sound_timer)
          /\ panic' = "none"
      ]_vars

IsDraw(opcode) == bit_i(opcode, 0) = 13

\* the bit of the sprite memory[idx .. idx + n] that falls on pixel (px, py)
\* when the sprite's top left corner is at (x0, y0); FALSE outside the sprite
SpriteCovers(mem, idx, n, x0, y0, px, py) ==
    /\ py >= y0 /\ py < y0 + n
    /\ px >= x0 /\ px < x0 + 8
    /\ Bit(mem[idx + (py - y0)], 7 - (px - x0)) = 1

(***************************************************************************)
(* C8: a tick that executes Dxyn without a fault XORs the sprite           *)
(* memory[I .. I+n] onto the display at x0 = Vx mod 64, y0 = Vy mod 32     *)
(* (read before VF is written): every pixel of the 64x32 grid that a set   *)
(* sprite bit falls on is inverted, sprite bits past the right or bottom   *)
(* edge are dropped without wrapping, every other pixel is unchanged; VF   *)
(* ends as 1 if a lit pixel was turned off and as 0 otherwise, and no      *)
(* other register, I or memory changes.                                    *)
(***************************************************************************)
C8_DrawIsClippedXor ==
    [][(TickStep /\ IsDraw(Opcode) /\ panic' = "none") =>
          LET x0 == register[bit_i(Opcode, 1)] % 64
              y0 == register[bit_i(Opcode, 2)] % 32
              n == Opcode % 16
              hit(px, py) == SpriteCovers(memory, i, n, x0, y0, px, py)
          IN  /\ \A py \in 0..31 : \A px \in 0..63 :
                    display'[py][px] = (display[py][px] # hit(px, py))
              /\ register'[15] =
                    IF \E py \in 0..31 : \E px \in 0..63 : display[py][px] /\ hit(px, py)
                        THEN 1 ELSE 0
              /\ \A k \in 0..14 : register'[k] = register[k]
              /\ i' = i
              /\ memory' = memory
      ]_vars

\* glyph 0 and then glyph 1 drawn at (61, 30): clipped to three columns and two
\* rows, pixel (63, 30) turned off with a collision, nothing wrapped around
C8_Witness ==
    /\ register[15] = 1
    /\ display[30][61] /\ display[30][62] /\ ~display[30][63]
    /\ display[31][61] /\ display[31][62] /\ display[31][63]
    /\ \A px \in 0..60 : ~display[30][px] /\ ~display[31][px]
    /\ \A px \in 0..63 : ~display[0][px]

\* the context after executing the draw instruction opcode in context c
AfterDraw(c, opcode) ==
    CHOOSE d \in op_draw(c, bit_i(opcode, 1), bit_i(opcode, 2), opcode % 16) : TRUE

\* the draw about to be executed can be repeated as the same draw: it does not
\* fault and it leaves Vx and Vy as they are (it may write VF)
RepeatableDraw ==
    /\ TickStep
    /\ IsDraw(Opcode)
    /\ AfterDraw(Ctx, Opcode).panic = "none"
    /\ AfterDraw(Ctx, Opcode).register[bit_i(Opcode, 1)] = register[bit_i(Opcode, 1)]
    /\ AfterDraw(Ctx, Opcode).register[bit_i(Opcode, 2)] = register[bit_i(Opcode, 2)]

(***************************************************************************)
(* C9 as stated: executing the same Dxyn twice (same Vx, Vy, I, n and      *)
(* sprite bytes), the first of which touches at least one pixel, restores  *)
(* the display to its state before the first draw, leaves every pixel the  *)
(* first draw touched unlit, and the second draw reports VF = 1.  Violated *)
(* by a sprite drawn over pixels that are lit.                             *)
(***************************************************************************)
C9_SecondDrawErasesAndCollides ==
    (RepeatableDraw /\ AfterDraw(Ctx, Opcode).display # display) =>
        LET first == AfterDraw(Ctx, Opcode)
            second == AfterDraw(first, Opcode)
        IN  /\ second.display = display
            /\ \A py \in 0..31 : \A px \in 0..63 :
                  first.display[py][px] # display[py][px] => ~second.display[py][px]
            /\ second.register[15] = 1

(***************************************************************************)
(* C9 as amended: executing the same Dxyn twice restores the display to    *)
(* its state before the first draw (every pixel the first draw lit is      *)
(* unlit again, every pixel it turned off is lit again), and the second    *)
(* draw reports VF = 1 exactly when the first draw lit at least one pixel. *)
(***************************************************************************)
C9_SecondDrawRestores ==
    RepeatableDraw =>
        LET first == AfterDraw(Ctx, Opcode)
            second == AfterDraw(first, Opcode)
            lit == \E py \in 0..31 : \E px \in 0..63 :
                      first.display[py][px] /\ ~display[py][px]
        IN  /\ second.display = display
            /\ second.register[15] = (IF lit THEN 1 ELSE 0)

\* D015 at 0x202 and 0x204 have drawn and erased glyph 0 with a collision, and
\* the same draw is about to be executed a third time
C9_Witness ==
    /\ RepeatableDraw
    /\ fetch(memory, INSTR_OFFSET + 2) = \hD015
    /\ fetch(memory, INSTR_OFFSET + 4) = \hD015
    /\ program_counter = INSTR_OFFSET + 6
    /\ display = BlankDisplay
    /\ register[15] = 1

(***************************************************************************)
(* C10: in main's order (process_keyboard_input, then update) the keypad   *)
(* the instruction of a tick sees holds exactly the keys that the keyboard *)
(* state handed in for this tick maps to; update() has reset all entries   *)
(* before the next input, so no earlier key is still seen; and the         *)
(* instruction itself does not write the keypad.                           *)
(***************************************************************************)
C10_KeypadIsThisTicksInput ==
    /\ main_pc = "update" =>
          \A k \in 0..15 : keypad[k] <=> k \in {ScancodeKey(sc) : sc \in keycodes}
    /\ main_pc = "input" => NoKeyDown(keypad)
    /\ TickStep => \A c \in process_instructions(Ctx) : c.keypad = keypad

\* key 5 was seen down by an earlier Fx0A; this tick sees only key 1
C10_Witness ==
    /\ main_pc = "update"
    /\ register[0] = 5
    /\ keycodes = {"Num2"}
    /\ keypad[1] /\ ~keypad[5]

IsCall(opcode) == bit_i(opcode, 0) = 2
IsReturn(opcode) == opcode = \h00EE
\* the last element of a non-empty stack, and the stack without it
Top(stk) == stk[Len(stk)]
Popped(stk) == SubSeq(stk, 1, Len(stk) - 1)

(***************************************************************************)
(* C11 as stated: 2nnn fetched at address a pushes a + 2 and sets the      *)
(* program counter to nnn; 00EE on a non-empty stack pops the most         *)
(* recently pushed value into the program counter; no other instruction    *)
(* changes the stack.  Violated by the return of a call made at 0xFFE: the *)
(* saved value is 4096 and the tick ends with the program counter at       *)
(* 0x200.                                                                  *)
(***************************************************************************)
C11_ReturnResumesAtSavedValue ==
    [][TickStep =>
          IF IsCall(Opcode)
              THEN /\ stack' = Append(stack, program_counter + 2)
                   /\ program_counter' = Opcode % 4096
                   /\ panic' = "none"
          ELSE IF IsReturn(Opcode) /\ stack # <<>>
              THEN /\ program_counter' = Top(stack)
                   /\ stack' = Popped(stack)
          ELSE stack' = stack]_vars

(***************************************************************************)
(* C11 as amended: as stated, except that 00EE ends the tick with the      *)
(* program counter at 0x200 when the popped value is 4096 (the call was    *)
(* the instruction at 0xFFE); every other return resumes at the popped     *)
(* value, the address following the matching call.                         *)
(***************************************************************************)
C11_CallReturnIsLifo ==
    [][TickStep =>
          IF IsCall(Opcode)
              THEN /\ stack' = Append(stack, program_counter + 2)
                   /\ program_counter' = Opcode % 4096
                   /\ panic' = "none"
          ELSE IF IsReturn(Opcode) /\ stack # <<>>
              THEN /\ program_counter' =
                        (IF Top(stack) = MEMORY_SIZE THEN INSTR_OFFSET ELSE Top(stack))
                   /\ stack' = Popped(stack)
                   /\ panic' = "none"
          ELSE stack' = stack]_vars

\* two nested calls have both returned: the inner one to 0x206, the outer one
\* to 0x202, the instruction after the first call
C11_Witness ==
    /\ ticks = 4
    /\ panic = "none"
    /\ stack = <<>>
    /\ program_counter = INSTR_OFFSET + 2
    /\ fetch(memory, INSTR_OFFSET) = \h2204
    /\ fetch(memory, INSTR_OFFSET + 6) = \h00EE

\* the instruction is 8xyN with last nibble op
IsAlu(opcode, op) == bit_i(opcode, 0) = 8 /\ opcode % 16 = op
\* the value of a condition as a flag
Flag(cond) == IF cond THEN 1 ELSE 0

(***************************************************************************)
(* C12: a tick that executes 8xy4 with x # F, a = Vx and b = Vy before it, *)
(* ends with Vx = (a + b) mod 256 and VF = 1 if a + b > 255, else VF = 0,  *)
(* for y = F as for any other y.  Violated for y = F: VF is overwritten    *)
(* with the carry before the sum reads it, e.g. V0 = 5, VF = 3, 80F4       *)
(* leaves V0 = 5.                                                          *)
(***************************************************************************)
C12_AddWithCarry ==
    [][(TickStep /\ IsAlu(Opcode, 4) /\ bit_i(Opcode, 1) # 15) =>
          LET a == register[bit_i(Opcode, 1)]
              b == register[bit_i(Opcode, 2)]
          IN  /\ panic' = "none"
              /\ register'[bit_i(Opcode, 1)] = (a + b) % 256
              /\ register'[15] = Flag(a + b > 255)]_vars

(***************************************************************************)
(* C13: a tick that executes 8xy5 with x # F, a = Vx and b = Vy before it, *)
(* completes without fault and ends with Vx = (a - b) mod 256 and          *)
(* VF = 1 iff a > b; a tick that executes 8xy7 completes without fault and *)
(* ends with Vx = (b - a) mod 256 and VF = 1 iff b > a; for y = F as for   *)
(* any other y.  Violated: a < b under 8xy5 (b < a under 8xy7) panics in a *)
(* build with overflow checks, and for y = F the subtrahend is read after  *)
(* VF was overwritten with the flag.                                       *)
(***************************************************************************)
C13_SubtractWraps ==
    [][(TickStep /\ (IsAlu(Opcode, 5) \/ IsAlu(Opcode, 7)) /\ bit_i(Opcode, 1) # 15) =>
          LET a == register[bit_i(Opcode, 1)]
              b == register[bit_i(Opcode, 2)]
              minuend == IF IsAlu(Opcode, 5) THEN a ELSE b
              subtrahend == IF IsAlu(Opcode, 5) THEN b ELSE a
          IN  /\ panic' = "none"
              /\ register'[bit_i(Opcode, 1)] = (minuend - subtrahend) % 256
              /\ register'[15] = Flag(minuend > subtrahend)]_vars

\* the flag of a flag-producing 8xyN on operands a = Vx, b = Vy
FlagOf(opcode, a, b) ==
    CASE IsAlu(opcode, 4) -> Flag(a + b > 255)
      [] IsAlu(opcode, 5) -> Flag(a > b)
      [] IsAlu(opcode, 7) -> Flag(b > a)
      [] IsAlu(opcode, 6) -> a % 2
      [] IsAlu(opcode, 14) -> a \div 128

(***************************************************************************)
(* C14: a tick that executes 8xy4, 8xy5, 8xy7, 8xy6 or 8xyE with x = F     *)
(* ends with VF holding the flag computed from the operands before the     *)
(* instruction (carry, no-borrow, shifted-out bit), not the arithmetic     *)
(* result.  Violated by 8Fy4, 8Fy5 and 8Fy7: they write the flag first and *)
(* the data second, e.g. VF = 3, V0 = 5, 8F04 leaves VF = 5.               *)
(***************************************************************************)
C14_FlagWrittenLast ==
    [][(TickStep /\ \E op \in AluOps : IsAlu(Opcode, op) /\ bit_i(Opcode, 1) = 15) =>
          /\ panic' = "none"
          /\ register'[15] = FlagOf(Opcode, register[15], register[bit_i(Opcode, 2)])]_vars

IsAddToIndex(opcode) == bit_i(opcode, 0) = 15 /\ opcode % 256 = \h1E

(***************************************************************************)
(* C15: a tick that executes Fx1E never faults, ends with I equal to I     *)
(* plus Vx (both read before the instruction) with no masking, and with    *)
(* VF = 1 when that sum exceeds 0xFFF, however many Fx1E were executed     *)
(* before.  Violated by the 241st Fx1E of a row with Vx = 255 from         *)
(* I = 0xFFF: the u16 addition overflows, which panics in a build with     *)
(* overflow checks and wraps I to a small value (VF not set) otherwise.    *)
(***************************************************************************)
C15_IndexAddNeverFaults ==
    [][(TickStep /\ IsAddToIndex(Opcode)) =>
          LET sum == i + register[bit_i(Opcode, 1)]
          IN  /\ panic' = "none"
              /\ i' = sum
              /\ sum > \hFFF => register'[15] = 1]_vars

IsBcd(opcode) == bit_i(opcode, 0) = 15 /\ opcode % 256 = \h33

(***************************************************************************)
(* C16: a tick that executes Fx33 with v = Vx and the three addresses I,   *)
(* I + 1, I + 2 inside the memory ends with memory[I] = v div 100,         *)
(* memory[I + 1] = (v div 10) mod 10, memory[I + 2] = v mod 10, each digit *)
(* in 0..9 and 100 * memory[I] + 10 * memory[I + 1] + memory[I + 2] = v,   *)
(* and with every other memory byte, every register and I unchanged.       *)
(***************************************************************************)
C16_BcdStoresDigits ==
    [][(TickStep /\ IsBcd(Opcode) /\ i + 2 <= MEMORY_SIZE - 1) =>
          LET v == register[bit_i(Opcode, 1)]
          IN  /\ panic' = "none"
              /\ memory'[i] = v \div 100
              /\ memory'[i + 1] = (v \div 10) % 10
              /\ memory'[i + 2] = v % 10
              /\ \A k \in 0..2 : memory'[i + k] \in 0..9
              /\ 100 * memory'[i] + 10 * memory'[i + 1] + memory'[i + 2] = v
              /\ \A a \in 0..(MEMORY_SIZE - 1) : a \notin i..(i + 2) => memory'[a] = memory[a]
              /\ register' = register
              /\ i' = i]_vars

\* 255 was converted to 2, 5, 5 at the last three bytes of the memory
C16_Witness ==
    /\ panic = "none"
    /\ ticks = 3
    /\ i = \hFFD
    /\ fetch(memory, INSTR_OFFSET + 4) = \hF033
    /\ register[0] = 255
    /\ <<memory[i], memory[i + 1], memory[i + 2]>> = <<2, 5, 5>>

IsStore(opcode) == bit_i(opcode, 0) = 15 /\ opcode % 256 = \h55
IsLoad(opcode) == bit_i(opcode, 0) = 15 /\ opcode % 256 = \h65

(***************************************************************************)
(* C17: with the addresses I..I + x inside the memory, a tick that         *)
(* executes Fx55 ends with memory[I + k] = Vk for every k in 0..x and with *)
(* every other memory byte, every register and I unchanged; a tick that    *)
(* executes Fx65 ends with Vk = memory[I + k] for every k in 0..x and with *)
(* every register above x, the memory and I unchanged; and Fx65 decoded    *)
(* with the same x on the state a Fx55 tick ends in leaves V0..Vx equal to *)
(* their values before the Fx55.                                           *)
(***************************************************************************)
C17_StoreLoadRoundTrip ==
    [][(TickStep /\ i + bit_i(Opcode, 1) <= MEMORY_SIZE - 1) =>
          LET x == bit_i(Opcode, 1)
          IN  /\ IsStore(Opcode) =>
                    /\ panic' = "none"
                    /\ memory' = [a \in 0..(MEMORY_SIZE - 1) |->
                                    IF a \in i..(i + x) THEN register[a - i] ELSE memory[a]]
                    /\ register' = register
                    /\ i' = i
                    /\ \A d1 \in update(Ctx) :
                         \A d2 \in decode_instruction(d1, \hF065 + 256 * x) :
                            /\ d2.panic = "none"
                            /\ \A k \in 0..x : d2.register[k] = register[k]
              /\ IsLoad(Opcode) =>
                    /\ panic' = "none"
                    /\ register' = [k \in 0..15 |->
                                      IF k <= x THEN memory[i + k] ELSE register[k]]
                    /\ memory' = memory
                    /\ i' = i]_vars

\* F155 stored V0 = 0x11, V1 = 0x22 at 0x300, both were overwritten, and
\* F165 has loaded them back; V2 was not stored
C17_Witness ==
    /\ panic = "none"
    /\ ticks = 8
    /\ fetch(memory, INSTR_OFFSET + 8) = \hF155
    /\ fetch(memory, INSTR_OFFSET + 14) = \hF165
    /\ i = \h300
    /\ <<memory[i], memory[i + 1], memory[i + 2]>> = <<\h11, \h22, 0>>
    /\ <<register[0], register[1], register[2]>> = <<\h11, \h22, \h33>>

IsRandom(opcode) == bit_i(opcode, 0) = 12

(***************************************************************************)
(* C19: a tick that executes Cxnn can end with Vx = v for exactly the      *)
(* values v of 0..255 with (v AND nn) = v: each of them is the outcome of  *)
(* some execution (0xFF among them when nn = 0xFF), and no outcome has a   *)
(* bit set that is clear in nn.  Violated for nn = 0xFF: the random byte   *)
(* is drawn from 0..254, so no execution of CxFF leaves Vx = 0xFF.         *)
(***************************************************************************)
C19_RandomCoversEveryByte ==
    [][(TickStep /\ IsRandom(Opcode)) =>
          LET x == bit_i(Opcode, 1)
              nn == Opcode % 256
              outcomes == {d.register[x] : d \in update(Ctx)}
          IN  /\ outcomes = {v \in 0..255 : BitAnd(v, nn) = v}
              /\ register'[x] \in outcomes
              /\ panic' = "none"]_vars

(***************************************************************************)
(* C18: in every tick that reaches the timer step, the audio device is     *)
(* left playing when the step finds the sound counter positive and left    *)
(* stopped when it finds 0, and nothing else changes the device; with d    *)
(* the value of the last Fx18 and s the timer steps since (the first is    *)
(* the one of the Fx18 tick), the device is playing while 1 <= s <=        *)
(* d * (TARGET_IPS / 60) and stopped from s = d * (TARGET_IPS / 60) + 1    *)
(* on, until the next Fx18.                                                *)
(***************************************************************************)
C18_SoundDrivesDevice ==
    [][/\ ~TickStep => beep_device' = beep_device
       /\ (TickStep /\ panic' = "none") =>
            LET found == {p.sound_timer : p \in process_instructions(Ctx)}
                d == sound_started'.duration
                s == sound_started'.steps
                run == d * (TARGET_IPS \div 60)
            IN  /\ (\A t \in found : t > 0) => beep_device' = "playing"
                /\ found = {0} => beep_device' = "paused"
                /\ (1 <= s /\ s <= run) => beep_device' = "playing"
                /\ s >= run + 1 => beep_device' = "paused" /\ sound_timer' = 0
      ]_vars

\* a sound started with 1 has stopped at the twelfth timer step, after it
\* played up to the eleventh
C18_Witness ==
    /\ sound_started = [duration |-> 1, steps |-> TARGET_IPS \div 60 + 1]
    /\ beep_device = "paused"
    /\ ~playing
    /\ sound_timer = 0
    /\ panic = "none"

IsReadDelay(opcode) == bit_i(opcode, 0) = 15 /\ opcode % 256 = \h07

(***************************************************************************)
(* C20: a tick that executes Fx07 stores 0 in Vx if and only if the delay  *)
(* counter is 0; and while the counter is positive and was not restarted,  *)
(* a read is positive and not above the previous read of the countdown     *)
(* (in the programs of SpecDelay Vx is written by Fx07 alone, so from the  *)
(* third timer step of a countdown on Vx holds the previous read).         *)
(* Violated: the counter, up to 255 * 11, is truncated to its low 8 bits,  *)
(* so with d = 25 the read at counter 256 is 0 and the next one is 254.    *)
(***************************************************************************)
C20_DelayReadIsFaithful ==
    [][(TickStep /\ IsReadDelay(Opcode)) =>
          LET x == bit_i(Opcode, 1)
          IN  /\ panic' = "none"
              /\ register'[x] = 0 <=> delay_timer = 0
              /\ (delay_timer > 0 /\ delay_started.steps >= 3) =>
                    register'[x] <= register[x]]_vars

\* the number of bytes an instruction accesses from address I on, 0 for an
\* instruction that does not use I as an address
IndexedExtent(opcode) ==
    IF IsDraw(opcode) THEN opcode % 16
    ELSE IF IsBcd(opcode) THEN 3
    ELSE IF IsStore(opcode) \/ IsLoad(opcode) THEN bit_i(opcode, 1) + 1
    ELSE 0

(***************************************************************************)
(* C21: a tick that executes Dxyn, Fx33, Fx55 or Fx65 accesses only        *)
(* addresses 0..4095 (I plus the number of bytes accessed is at most 4096) *)
(* and does not fault, whatever value Annn, Fx1E and Fx29 gave to I.       *)
(* Violated: Annn with nnn = 0xFFE followed by Fx33 stores at 4094, 4095   *)
(* and 4096, and the last store panics; likewise Dxyn, Fx55 and Fx65 at    *)
(* I = 0xFFF, and any of them once Fx1E has moved I past 0xFFF.            *)
(***************************************************************************)
C21_IndexedAccessInBounds ==
    [][(TickStep /\ IndexedExtent(Opcode) > 0) =>
          /\ i + IndexedExtent(Opcode) <= MEMORY_SIZE
          /\ panic' = "none"]_vars

\* the points <<x, y>> of the display buffer that are lit
LitPixels == {p \in (0..63) \X (0..31) : display[p[2]][p[1]]}
\* the points held by the renderer
RenderedPoints == {to_be_rendered[k] : k \in 1..Len(to_be_rendered)}

(***************************************************************************)
(* C22: in every reachable state the renderer's list to_be_rendered holds  *)
(* exactly the lit pixels of the 64x32 display buffer, each once: a point  *)
(* <<x, y>> is in the list iff display[y][x] is true, and no point occurs  *)
(* twice; so remove_pixel_at, called for a lit pixel, finds its point.     *)
(***************************************************************************)
C22_RenderedPointsAreLitPixels ==
    /\ RenderedPoints = LitPixels
    /\ Cardinality(RenderedPoints) = Len(to_be_rendered)

\* a second draw has turned off part of what the first one lit: pixels were
\* removed from the list (VF = 1) and others are still lit
C22_Witness ==
    /\ panic = "none"
    /\ register[15] = 1
    /\ to_be_rendered # <<>>
    /\ ticks = 6
    /\ IsDraw(fetch(memory, INSTR_OFFSET + 6))
    /\ IsDraw(fetch(memory, INSTR_OFFSET + 10))

====
